---- MODULE Spec2Model ----
(***************************************************************************)
(* Multique: credential lifecycle and resilient-post protocol.             *)
(*                                                                         *)
(* The model follows src/src/main.rs (PostApp::new, the Post button's      *)
(* broadcast task), src/src/bluesky.rs, src/src/twitter.rs and             *)
(* src/src/mastodon.rs.  Every network request is a suspension point of    *)
(* the task that issues it: a task's pc names the request in flight, and   *)
(* the action that consumes the (nondeterministic) server response runs    *)
(* the code up to the next request.  The linkedin module is not part of    *)
(* the sources and AppState (posts.rs) has no linkedin field, so the       *)
(* LinkedIn section of the broadcast is not modelled.                      *)
(***************************************************************************)
EXTENDS Integers, Sequences, FiniteSets, TLC

VARIABLES
    state,                \* posts::AppState behind Arc<Mutex<..>>
    lock,                 \* holder of the AppState mutex: "free", "startup" or a task
    platform_checkboxes,  \* PostApp.platform_checkboxes
    files,                \* content of each platform's TOKEN_FILE
    env,                  \* the process environment: set of defined variables
    startup,              \* the token validation task spawned by PostApp::new
    task,                 \* the broadcast tasks spawned by the Post button
    auth,                 \* the authorization tasks spawned by the Authorize buttons
    hist                  \* history of the latest broadcast (for the properties)

vars == <<state, lock, platform_checkboxes, files, env, startup, task, auth, hist>>

----------------------------------------------------------------------------
(* Bounds of the model *)

\* number of distinct grants (access/refresh pairs) the servers hand out;
\* grant 0 is the one a previous run left in the files
MaxGrant == 1
\* the history counters of a post call saturate at this value
CountCap == 3

----------------------------------------------------------------------------
(* Values *)

Platforms == {"Twitter", "Bluesky", "Mastodon"}
Tasks == {"b1"}
\* the broadcast tasks that can exist side by side: a second click of Post spawns
\* another one while the first still runs
Broadcasts == Tasks \cup {"b2"}
Grants == 1..MaxGrant
Dids == {"did:plc:x"}
Texts == {"", "hello"}
EnvVars == {"TWITTER_CLIENT_ID", "TWITTER_REDIRECT_URI",
            "MASTODON_CLIENT_ID", "MASTODON_CLIENT_SECRET"}
\* the environments dotenv() can leave behind: complete, or one variable short
EnvConfigs == {EnvVars} \cup {EnvVars \ {v} : v \in EnvVars}

\* Option<T>
None == <<>>
Some(x) == <<x>>
IsSome(o) == o # None
Unwrap(o) == o[1]

\* the access and the refresh token of grant g are different strings
AccessOf(g) == <<"access", g>>
RefreshOf(g) == <<"refresh", g>>

\* responses to a create-post request, by the branch of the code they take
PostResponses == {"success", "unauthorized", "rejected", "transport"}
\* responses to an authorization or refresh request
Ok(body) == [status |-> "ok", body |-> body]
AuthFailures == {[status |-> s] : s \in {"rejected", "unparsable", "transport"}}

\* successful responses of Bluesky's createSession / refreshSession
BlueskyGrants ==
    {[access_jwt |-> AccessOf(g), refresh_jwt |-> RefreshOf(g), did |-> d] :
        g \in Grants, d \in Dids}
\* successful responses of Twitter's token endpoint (refresh_token is optional)
TwitterGrants ==
    {[access_token |-> AccessOf(g), refresh_token |-> Some(RefreshOf(g))] : g \in Grants}
    \cup {[access_token |-> AccessOf(g), refresh_token |-> None] : g \in Grants}

Inc(n) == IF n < CountCap THEN n + 1 ELSE CountCap

\* successful responses of Mastodon's token endpoint
MastodonGrants == {[access_token |-> AccessOf(g)] : g \in Grants}

BlueskyAuthResponses == {Ok(b) : b \in BlueskyGrants} \cup AuthFailures
\* the responses to the requests of the validation task: a session the server
\* issues to one request is not the one it issues to another
StartupGrants ==
    {[access_jwt |-> AccessOf(MaxGrant + g), refresh_jwt |-> RefreshOf(MaxGrant + g),
      did |-> d] : g \in Grants, d \in Dids}
StartupAuthResponses == {Ok(b) : b \in StartupGrants} \cup AuthFailures
TwitterAuthResponses == {Ok(b) : b \in TwitterGrants} \cup AuthFailures
MastodonAuthResponses == {Ok(b) : b \in MastodonGrants} \cup AuthFailures

----------------------------------------------------------------------------
(* Credential store: one JSON file per platform *)

Absent == [kind |-> "absent"]
Corrupt == [kind |-> "corrupt"]

\* serde_json::to_string(&token_data) written by fs::write
BlueskySaveTokens(access_jwt, refresh_jwt, did) ==
    [kind |-> "json", access_jwt |-> access_jwt, refresh_jwt |-> refresh_jwt, did |-> did]

TwitterSaveTokens(access_token, refresh_token) ==
    [kind |-> "json", access_token |-> access_token, refresh_token |-> refresh_token]

MastodonSaveTokens(access_token) ==
    [kind |-> "json", access_token |-> access_token]

\* fs::write(TOKEN_FILE, json): the file is created or truncated, then the content is
\* written.  It can fail before the file is touched or after it was truncated.
WriteResults == {"written", "failed", "partial"}
Write(p, json, w) ==
    files' = [files EXCEPT ![p] = IF w = "written" THEN json
                                  ELSE IF w = "partial" THEN Corrupt ELSE @]

\* Path::exists, then serde_json::from_str(..).ok()
BlueskyLoadTokens(f) ==
    IF f.kind = "json"
    THEN Some([access_jwt |-> f.access_jwt, refresh_jwt |-> f.refresh_jwt, did |-> f.did])
    ELSE None

\* TwitterLoadTokens with a TokenData that does not read back refresh_token
TwitterLoadTokensAccessOnly(f) ==
    IF f.kind = "json"
    THEN Some([access_token |-> f.access_token, refresh_token |-> None])
    ELSE None

TwitterLoadTokens(f) ==
    IF f.kind = "json"
    THEN Some([access_token |-> f.access_token, refresh_token |-> f.refresh_token])
    ELSE None

TwitterLoadBearerToken(f) ==
    IF IsSome(TwitterLoadTokens(f)) THEN Some(Unwrap(TwitterLoadTokens(f)).access_token)
    ELSE None

MastodonLoadTokens(f) ==
    IF f.kind = "json" THEN Some([access_token |-> f.access_token]) ELSE None

----------------------------------------------------------------------------
(* Initial state: PostApp::new *)

\* AppState::default()
AppStateDefault ==
    [twitter_authorized |-> FALSE, mastodon_authorized |-> FALSE,
     bluesky_authorized |-> FALSE, post_text |-> "",
     bluesky_token |-> None, did |-> None]

\* files a previous run may have left behind
InitBlueskyFiles ==
    {Absent, Corrupt}
    \cup {BlueskySaveTokens(AccessOf(0), RefreshOf(0), d) : d \in Dids}
InitTwitterFiles ==
    {Absent, Corrupt, TwitterSaveTokens(AccessOf(0), Some(RefreshOf(0))),
     TwitterSaveTokens(AccessOf(0), None)}
InitMastodonFiles == {Absent, Corrupt, MastodonSaveTokens(AccessOf(0))}

\* an authorization task that was not spawned, with the locals it will have
IdleAuth == [pc |-> "idle", new_tokens |-> None]

IdleTask ==
    [pc |-> "idle", selected_platforms |-> [p \in Platforms |-> FALSE],
     text |-> "", current_token |-> None, user_did |-> None, attempt |-> 0]

\* history of the broadcast that last took the lock, kept after its end until the
\* next step of anything else:
\*   task, text, wanted: the task running it, the message it read and the platforms
\*       that were selected and authorized when it took the lock;
\*   call, n_create, n_refresh, n_reauth, refresh_failed: the platform of its current
\*       post call, the requests that call has issued (saturating) and whether its
\*       latest refresh failed; kept until the broadcast moves on to the next platform;
\*   first[p]: how the first 401 of the call to p was recovered ("none" if it was not);
\*   outcome[p]: how the call to p ended ("none": no call, "pending": not yet);
\*   last_auth: the authorization task that ended with the latest step, and how.
NoAuth == [platform |-> "none", outcome |-> "none"]
NoHist ==
    [task |-> "none", text |-> "", wanted |-> {}, last_auth |-> NoAuth,
     call |-> "none", n_create |-> 0, n_refresh |-> 0, n_reauth |-> 0,
     refresh_failed |-> FALSE,
     first |-> [p \in Platforms |-> "none"],
     outcome |-> [p \in Platforms |-> "none"]]

\* NewState with a PostApp::new that does not copy the did of the loaded record
NewStateWithoutDid(bf, tf, mf) ==
    [AppStateDefault EXCEPT
        !.bluesky_token =
            IF IsSome(BlueskyLoadTokens(bf))
            THEN Some(Unwrap(BlueskyLoadTokens(bf)).access_jwt) ELSE None,
        !.bluesky_authorized = IsSome(BlueskyLoadTokens(bf)),
        !.twitter_authorized = IsSome(TwitterLoadBearerToken(tf)),
        !.mastodon_authorized = IsSome(MastodonLoadTokens(mf))]

\* the Session State PostApp::new leaves behind
NewState(bf, tf, mf) ==
    [AppStateDefault EXCEPT
        !.bluesky_token =
            IF IsSome(BlueskyLoadTokens(bf))
            THEN Some(Unwrap(BlueskyLoadTokens(bf)).access_jwt) ELSE None,
        !.did =
            IF IsSome(BlueskyLoadTokens(bf))
            THEN Some(Unwrap(BlueskyLoadTokens(bf)).did) ELSE None,
        !.bluesky_authorized = IsSome(BlueskyLoadTokens(bf)),
        !.twitter_authorized = IsSome(TwitterLoadBearerToken(tf)),
        !.mastodon_authorized = IsSome(MastodonLoadTokens(mf))]

\* the validation task is spawned with the refresh request of the loaded record
NewStartup(bf) ==
    [pc |-> IF IsSome(BlueskyLoadTokens(bf)) THEN "refresh" ELSE "none",
     new_tokens |-> None]

PostAppNew(bf, tf, mf) ==
    /\ files = [Twitter |-> tf, Bluesky |-> bf, Mastodon |-> mf]
    /\ platform_checkboxes = [Twitter |-> TRUE, Bluesky |-> TRUE, Mastodon |-> TRUE]
    /\ state = NewState(bf, tf, mf)
    /\ startup = NewStartup(bf)
    /\ lock = "free"
    /\ task = [t \in Broadcasts |-> IdleTask]
    /\ auth = [p \in Platforms |-> IdleAuth]
    /\ hist = NoHist

\* the program starts with any files; Mastodon's variables are set, only the
\* Authorize button reads them
Init ==
    /\ env \in {e \in EnvConfigs : {"MASTODON_CLIENT_ID", "MASTODON_CLIENT_SECRET"} \subseteq e}
    /\ \E bf \in InitBlueskyFiles, tf \in InitTwitterFiles, mf \in InitMastodonFiles :
        PostAppNew(bf, tf, mf)

\* a file that exists and that fs::read_to_string cannot read as a string (bytes
\* that are not UTF-8, no permission to read, a directory)
Unreadable == [kind |-> "unreadable"]
\* load_tokens: fs::read_to_string(TOKEN_FILE).expect("Failed to read token file")
LoadPanics(f) == f.kind = "unreadable"

\* every content the files can have when the process starts
AnyBlueskyFiles == InitBlueskyFiles \cup {Unreadable}
AnyTwitterFiles == InitTwitterFiles \cup {Unreadable}
AnyMastodonFiles == InitMastodonFiles \cup {Unreadable}

\* PostApp::new as a step: the loads of the three files in turn; a load that
\* panics ends the process before the window exists
New ==
    /\ startup.pc = "new"
    /\ IF \E p \in Platforms : LoadPanics(files[p])
       THEN /\ startup' = [pc |-> "panicked", new_tokens |-> None]
            /\ UNCHANGED state
       ELSE /\ state' = NewState(files["Bluesky"], files["Twitter"], files["Mastodon"])
            /\ startup' = NewStartup(files["Bluesky"])
    /\ UNCHANGED <<lock, platform_checkboxes, files, env, task, auth, hist>>

\* the first run of the program: any environment, no credential file yet
AuthInit ==
    /\ env \in EnvConfigs
    /\ PostAppNew(Absent, Absent, Absent)

\* the is_authorized closures of PostApp::update
Authorized(p) ==
    IF p = "Twitter" THEN state.twitter_authorized
    ELSE IF p = "Bluesky" THEN state.bluesky_authorized
    ELSE state.mastodon_authorized

----------------------------------------------------------------------------
(* History bookkeeping (not program state) *)

\* a post call to p starts with its first create-post request
StartCall(h, p) ==
    [h EXCEPT !.call = p, !.n_create = 1, !.n_refresh = 0, !.n_reauth = 0,
              !.refresh_failed = FALSE, !.outcome[p] = "pending"]
\* one more request of the kind `field` is issued by the current call
Issued(h, field) == [h EXCEPT ![field] = Inc(@)]
\* a refresh or reauthorization of the current call succeeded
Renewed(h, how) ==
    [h EXCEPT !.first[h.call] = IF @ = "none" THEN how ELSE @, !.refresh_failed = FALSE]
\* a refresh of the current call failed
RefreshFailed(h) == [h EXCEPT !.refresh_failed = TRUE]
\* outcome of a call that ends because its reauthorization failed
ReauthFailed(h) == IF h.refresh_failed THEN "unrecovered" ELSE "reauth_failed"
\* the call to p ends with outcome o
Ended(h, p, o) == [h EXCEPT !.outcome[p] = o]
\* the broadcast moves on: no post call is current
Between(h) ==
    [h EXCEPT !.call = "none", !.n_create = 0, !.n_refresh = 0, !.n_reauth = 0,
              !.refresh_failed = FALSE]
\* p is selected and authorized but no token could be read for it
Skipped(h, p) == Ended(Between(h), p, "skipped")
\* a step of the running broadcast: the end of an authorization is no longer the
\* latest step
Step(h) == [h EXCEPT !.last_auth = NoAuth]
\* a step of another task: the history of a broadcast that is over is dropped
Forget(h) ==
    IF h.task # "none" /\ task[h.task].pc \in {"done", "aborted"} THEN NoHist
    ELSE Step(h)
\* the authorization task of p ends with outcome o
AuthEnded(h, p, o) == [Forget(h) EXCEPT !.last_auth = [platform |-> p, outcome |-> o]]

----------------------------------------------------------------------------
(* The broadcast task: the closure spawned by the Post button.               *)
(* The closure suspends only at `.await`s: on the lock and on the network    *)
(* requests made inside post_to_*.  What runs between two suspensions is one *)
(* step, so a section that makes no request runs on into the next one.       *)

\* the Post button is clicked: rt.spawn with a clone of the checkboxes
ClickPost(t) ==
    /\ task[t].pc \in {"idle", "done", "aborted"}
    /\ task' = [task EXCEPT ![t] =
                    [IdleTask EXCEPT !.pc = "lock",
                                     !.selected_platforms = platform_checkboxes]]
    /\ hist' = Forget(hist)
    /\ UNCHANGED <<state, lock, platform_checkboxes, files, env, startup, auth>>

\* the task t suspends on a request with the locals tk, holding the MutexGuard
Await(t, tk, h) ==
    /\ task' = [task EXCEPT ![t] = tk]
    /\ hist' = Step(h)
    /\ lock' = t
    /\ UNCHANGED state

\* the locals of a post call that has just issued its first create-post request
FirstRequest(tk, pc, token, did) ==
    [tk EXCEPT !.pc = pc, !.current_token = token, !.user_did = did, !.attempt = 0]

\* a panic unwinds the task: its locals and the MutexGuard are dropped, nothing
\* else of the closure runs
Abort(t, h) ==
    /\ task' = [task EXCEPT ![t] = [IdleTask EXCEPT !.pc = "aborted"]]
    /\ hist' = Step(Ended(h, h.call, "aborted"))
    /\ lock' = "free"
    /\ UNCHANGED state

\* BroadcastClear without the clear: the closure ends with the buffer as it was
BroadcastClearKeepsText(t, h) ==
    /\ lock' = "free"
    /\ task' = [task EXCEPT ![t] = [IdleTask EXCEPT !.pc = "done"]]
    /\ hist' = Step(Between(h))
    /\ UNCHANGED state

\* BroadcastClear that clears the Bluesky session along with the buffer
BroadcastClearSession(t, h) ==
    /\ state' = [state EXCEPT !.post_text = "", !.bluesky_token = None, !.did = None]
    /\ lock' = "free"
    /\ task' = [task EXCEPT ![t] = [IdleTask EXCEPT !.pc = "done"]]
    /\ hist' = Step(Between(h))

\* state.post_text.clear(); the guard and the locals are dropped at the end of the task
BroadcastClear(t, h) ==
    /\ state' = [state EXCEPT !.post_text = ""]
    /\ lock' = "free"
    /\ task' = [task EXCEPT ![t] = [IdleTask EXCEPT !.pc = "done"]]
    /\ hist' = Step(Between(h))

(* ---- Mastodon ---- *)

\* MastodonSection without the test of the checkbox: every authorized platform
\* with a token is posted to
MastodonSectionUnselected(t, tk, h) ==
    IF state.mastodon_authorized
    THEN IF IsSome(MastodonLoadTokens(files["Mastodon"]))
         THEN Await(t, FirstRequest(tk, "ms_post",
                        Some(Unwrap(MastodonLoadTokens(files["Mastodon"])).access_token),
                        None),
                    StartCall(h, "Mastodon"))
         ELSE BroadcastClear(t, Skipped(h, "Mastodon"))
    ELSE BroadcastClear(t, Between(h))

\* if selected && state.mastodon_authorized { if let Some(token_data) = load_tokens() {..} }
MastodonSection(t, tk, h) ==
    IF tk.selected_platforms["Mastodon"] /\ state.mastodon_authorized
    THEN IF IsSome(MastodonLoadTokens(files["Mastodon"]))
         THEN Await(t, FirstRequest(tk, "ms_post",
                        Some(Unwrap(MastodonLoadTokens(files["Mastodon"])).access_token),
                        None),
                    StartCall(h, "Mastodon"))
         ELSE BroadcastClear(t, Skipped(h, "Mastodon"))
    ELSE BroadcastClear(t, Between(h))

\* post_to_mastodon: the response to POST /api/v1/statuses; every branch returns
MastodonPostResponse(t, r) ==
    /\ task[t].pc = "ms_post"
    /\ BroadcastClear(t, Ended(hist, "Mastodon",
                               IF r = "success" THEN "success"
                               ELSE IF r = "unauthorized" THEN "unauthorized"
                               ELSE "rejected"))
    /\ UNCHANGED <<platform_checkboxes, files, env, startup, auth>>

(* ---- Bluesky ---- *)

\* post_to_bluesky returns to the broadcast closure
BlueskyReturn(t, h, o) == MastodonSection(t, task[t], Ended(h, "Bluesky", o))

\* save_tokens (which panics when the write fails) and `continue` in
\* `for _ in 0..2` with current_token renewed: the next iteration posts again;
\* after the second iteration the loop is left and the call returns false
BlueskyContinue(t, h, r, w) ==
    /\ Write("Bluesky",
             BlueskySaveTokens(r.body.access_jwt, r.body.refresh_jwt, r.body.did), w)
    /\ IF w # "written" THEN Abort(t, h)
       ELSE IF task[t].attempt + 1 < 2
       THEN Await(t, [task[t] EXCEPT !.pc = "bs_post",
                                     !.attempt = @ + 1,
                                     !.current_token = Some(r.body.access_jwt)],
                  Issued(h, "n_create"))
       ELSE BlueskyReturn(t, h, "exhausted")

\* if selected && state.bluesky_authorized { if let Some(token) .. if let Some(did) .. }
BlueskySection(t, tk, h) ==
    IF tk.selected_platforms["Bluesky"] /\ state.bluesky_authorized
    THEN IF IsSome(state.bluesky_token) /\ IsSome(state.did)
         THEN Await(t, FirstRequest(tk, "bs_post", state.bluesky_token, state.did),
                    StartCall(h, "Bluesky"))
         ELSE MastodonSection(t, tk, Skipped(h, "Bluesky"))
    ELSE MastodonSection(t, tk, Between(h))

\* post_to_bluesky: the response to createRecord
BlueskyPostResponse(t, r) ==
    /\ task[t].pc = "bs_post"
    /\ IF r = "success" THEN BlueskyReturn(t, hist, "success")
       ELSE IF r = "unauthorized"
       THEN IF IsSome(BlueskyLoadTokens(files["Bluesky"]))
            THEN \* refresh_access_token(&tokens.refresh_jwt)
                 Await(t, [task[t] EXCEPT !.pc = "bs_refresh"], Issued(hist, "n_refresh"))
            ELSE BlueskyReturn(t, hist, "no_record")
       ELSE BlueskyReturn(t, hist, "rejected")
    /\ UNCHANGED <<platform_checkboxes, files, env, startup, auth>>

\* refresh_access_token called by post_to_bluesky: the response to refreshSession
BlueskyRefreshResponse(t, r, w) ==
    /\ task[t].pc = "bs_refresh"
    /\ IF r.status = "ok"
       THEN BlueskyContinue(t, Renewed(hist, "refresh_ok"), r, w)
       ELSE \* reauthorize_bluesky(): createSession with the configured password
            /\ Await(t, [task[t] EXCEPT !.pc = "bs_reauth"],
                     Issued(RefreshFailed(hist), "n_reauth"))
            /\ UNCHANGED files
    /\ UNCHANGED <<platform_checkboxes, env, startup, auth>>

\* reauthorize_bluesky called by post_to_bluesky: the response to createSession
BlueskyReauthResponse(t, r, w) ==
    /\ task[t].pc = "bs_reauth"
    /\ IF r.status = "ok"
       THEN BlueskyContinue(t, Renewed(hist, "reauth_ok"), r, w)
       ELSE /\ BlueskyReturn(t, hist, ReauthFailed(hist))
            /\ UNCHANGED files
    /\ UNCHANGED <<platform_checkboxes, env, startup, auth>>

(* ---- Twitter ---- *)

\* post_to_twitter returns to the broadcast closure
TwitterReturn(t, h, o) == BlueskySection(t, task[t], Ended(h, "Twitter", o))

\* regenerate_twitter_token: generate_auth_url, then read the code from stdin
TwitterRegenerate(t, h) ==
    IF {"TWITTER_CLIENT_ID", "TWITTER_REDIRECT_URI"} \subseteq env
    THEN Await(t, [task[t] EXCEPT !.pc = "tw_stdin"], h)
    ELSE Abort(t, h)

\* Box::pin(post_to_twitter(&new_token, text)) after save_tokens, which panics
\* when the write fails
TwitterRetry(t, h, r, w) ==
    /\ Write("Twitter", TwitterSaveTokens(r.body.access_token, r.body.refresh_token), w)
    /\ IF w # "written" THEN Abort(t, h)
       ELSE Await(t, [task[t] EXCEPT !.pc = "tw_post",
                                     !.current_token = Some(r.body.access_token)],
                  Issued(h, "n_create"))

\* if selected && state.twitter_authorized { if let Some(bearer) = load_bearer_token() {..} }
TwitterSection(t, tk, h) ==
    IF tk.selected_platforms["Twitter"] /\ state.twitter_authorized
    THEN IF IsSome(TwitterLoadBearerToken(files["Twitter"]))
         THEN Await(t, FirstRequest(tk, "tw_post",
                                    TwitterLoadBearerToken(files["Twitter"]), None),
                    StartCall(h, "Twitter"))
         ELSE BlueskySection(t, tk, Skipped(h, "Twitter"))
    ELSE BlueskySection(t, tk, Between(h))

\* TwitterPostResponse with every failure handled like a 401
TwitterPostResponseAlwaysRecovers(t, r) ==
    /\ task[t].pc = "tw_post"
    /\ IF r = "success" THEN TwitterReturn(t, hist, "success")
       ELSE LET tokens == TwitterLoadTokens(files["Twitter"])
                refresh_token == IF IsSome(tokens) THEN Unwrap(tokens).refresh_token
                                 ELSE None
            IN IF IsSome(refresh_token)
               THEN IF "TWITTER_CLIENT_ID" \in env
                    THEN Await(t, [task[t] EXCEPT !.pc = "tw_refresh"],
                               Issued(hist, "n_refresh"))
                    ELSE Abort(t, hist)
               ELSE TwitterRegenerate(t, hist)
    /\ UNCHANGED <<platform_checkboxes, files, env, startup, auth>>

\* post_to_twitter: the response to POST /2/tweets
TwitterPostResponse(t, r) ==
    /\ task[t].pc = "tw_post"
    /\ IF r = "success" THEN TwitterReturn(t, hist, "success")
       ELSE IF r = "unauthorized"
       THEN LET tokens == TwitterLoadTokens(files["Twitter"])
                refresh_token == IF IsSome(tokens) THEN Unwrap(tokens).refresh_token
                                 ELSE None
            IN IF IsSome(refresh_token)
               THEN \* refresh_twitter_token: env::var("TWITTER_CLIENT_ID").expect(..)
                    IF "TWITTER_CLIENT_ID" \in env
                    THEN Await(t, [task[t] EXCEPT !.pc = "tw_refresh"],
                               Issued(hist, "n_refresh"))
                    ELSE Abort(t, hist)
               ELSE TwitterRegenerate(t, hist)
       ELSE TwitterReturn(t, hist, "rejected")
    /\ UNCHANGED <<platform_checkboxes, files, env, startup, auth>>

\* refresh_twitter_token: the response to the refresh request
TwitterRefreshResponse(t, r, w) ==
    /\ task[t].pc = "tw_refresh"
    /\ IF r.status = "ok"
       THEN TwitterRetry(t, Renewed(hist, "refresh_ok"), r, w)
       ELSE /\ TwitterRegenerate(t, RefreshFailed(hist))
            /\ UNCHANGED files
    /\ UNCHANGED <<platform_checkboxes, env, startup, auth>>

\* regenerate_twitter_token: stdin().read_line returns, authorize_twitter posts the code
TwitterStdin(t) ==
    /\ task[t].pc = "tw_stdin"
    /\ IF {"TWITTER_CLIENT_ID", "TWITTER_REDIRECT_URI"} \subseteq env
       THEN Await(t, [task[t] EXCEPT !.pc = "tw_auth"], Issued(hist, "n_reauth"))
       ELSE Abort(t, hist)
    /\ UNCHANGED <<platform_checkboxes, files, env, startup, auth>>

\* authorize_twitter called by regenerate_twitter_token: the token response.
\* Its state argument is a fresh AppState, so the shared one is not touched.
TwitterReauthResponse(t, r, w) ==
    /\ task[t].pc = "tw_auth"
    /\ IF r.status = "ok"
       THEN TwitterRetry(t, Renewed(hist, "reauth_ok"), r, w)
       ELSE /\ TwitterReturn(t, hist, ReauthFailed(hist))
            /\ UNCHANGED files
    /\ UNCHANGED <<platform_checkboxes, env, startup, auth>>

(* ---- the start of the closure ---- *)

\* let mut state = state.lock().await; let text = state.post_text.clone();
\* then the Twitter section
BroadcastLock(t) ==
    /\ task[t].pc = "lock"
    /\ lock = "free"
    /\ TwitterSection(t, [task[t] EXCEPT !.text = state.post_text],
                      [NoHist EXCEPT
                          !.task = t, !.text = state.post_text,
                          !.wanted = {p \in Platforms :
                                        task[t].selected_platforms[p] /\ Authorized(p)}])
    /\ UNCHANGED <<platform_checkboxes, files, env, startup, auth>>

----------------------------------------------------------------------------
(* The validation task PostApp::new spawns when a Bluesky record was loaded *)

\* bluesky::refresh_access_token(&tokens.refresh_jwt).await
StartupRefreshResponse(r, w) ==
    /\ startup.pc = "refresh"
    /\ IF r.status = "ok"
       THEN /\ Write("Bluesky",
                     BlueskySaveTokens(r.body.access_jwt, r.body.refresh_jwt,
                                       r.body.did), w)
            \* save_tokens panics when the write fails: the task ends there
            /\ startup' = IF w = "written"
                          THEN [pc |-> "set_tokens", new_tokens |-> Some(r.body)]
                          ELSE [pc |-> "done", new_tokens |-> None]
       ELSE /\ startup' = [startup EXCEPT !.pc = "reauth"]
            /\ UNCHANGED files
    /\ hist' = Forget(hist)
    /\ UNCHANGED <<state, lock, platform_checkboxes, env, task, auth>>

\* bluesky::reauthorize_bluesky().await
StartupReauthResponse(r, w) ==
    /\ startup.pc = "reauth"
    /\ IF r.status = "ok"
       THEN /\ Write("Bluesky",
                     BlueskySaveTokens(r.body.access_jwt, r.body.refresh_jwt,
                                       r.body.did), w)
            \* save_tokens panics when the write fails: the task ends there
            /\ startup' = IF w = "written"
                          THEN [pc |-> "set_tokens", new_tokens |-> Some(r.body)]
                          ELSE [pc |-> "done", new_tokens |-> None]
       ELSE /\ startup' = [startup EXCEPT !.pc = "set_unauthorized"]
            /\ UNCHANGED files
    /\ hist' = Forget(hist)
    /\ UNCHANGED <<state, lock, platform_checkboxes, env, task, auth>>

\* let mut state = state_clone.lock().await; the guard is dropped at once
StartupSetState ==
    /\ startup.pc \in {"set_tokens", "set_unauthorized"}
    /\ lock = "free"
    /\ state' =
        IF startup.pc = "set_tokens"
        THEN [state EXCEPT !.bluesky_token = Some(Unwrap(startup.new_tokens).access_jwt),
                           !.did = Some(Unwrap(startup.new_tokens).did)]
        ELSE [state EXCEPT !.bluesky_authorized = FALSE]
    /\ startup' = [pc |-> "done", new_tokens |-> None]
    /\ hist' = Forget(hist)
    /\ UNCHANGED <<lock, platform_checkboxes, files, env, task, auth>>

----------------------------------------------------------------------------
(* The authorization tasks: the closures spawned by the Authorize buttons.   *)
(* The user carries out one authorization at a time.                         *)

\* the platform's authorized flag is set
SetAuthorized(s, p) ==
    IF p = "Twitter" THEN [s EXCEPT !.twitter_authorized = TRUE]
    ELSE IF p = "Bluesky" THEN [s EXCEPT !.bluesky_authorized = TRUE]
    ELSE [s EXCEPT !.mastodon_authorized = TRUE]

\* the configuration variables the authorization of p reads with expect(..)
RequiredEnv(p) ==
    IF p = "Twitter" THEN {"TWITTER_CLIENT_ID", "TWITTER_REDIRECT_URI"}
    ELSE IF p = "Mastodon" THEN {"MASTODON_CLIENT_ID", "MASTODON_CLIENT_SECRET"}
    ELSE {}

\* ui.button("Authorize").clicked(), shown while the platform is not authorized:
\* rt.spawn, and the task runs up to its first suspension.  Twitter and Mastodon
\* read their configuration (a missing variable panics) and wait for the code on
\* stdin; Bluesky sends createSession at once.
ClickAuthorize(p) ==
    /\ lock = "free"
    /\ ~Authorized(p)
    /\ \A q \in Platforms : auth[q].pc = "idle"
    /\ IF RequiredEnv(p) \subseteq env
       THEN /\ auth' = [auth EXCEPT ![p].pc = IF p = "Bluesky" THEN "request" ELSE "stdin"]
            /\ hist' = NoHist
       ELSE /\ auth' = auth
            /\ hist' = AuthEnded(NoHist, p, "aborted")
    /\ UNCHANGED <<state, lock, platform_checkboxes, files, env, startup, task>>

\* stdin().read_line returns: the code is sent to the token endpoint
AuthorizeStdin(p) ==
    /\ auth[p].pc = "stdin"
    /\ auth' = [auth EXCEPT ![p].pc = "request"]
    /\ hist' = Forget(hist)
    /\ UNCHANGED <<state, lock, platform_checkboxes, files, env, startup, task>>

\* AuthorizeFailed with a closure that does not test the result: the task goes on
\* to set the flag
AuthorizeFailedSetsFlag(p) ==
    /\ auth' = [auth EXCEPT ![p] = [pc |-> "set_flag", new_tokens |-> None]]
    /\ hist' = Forget(hist)
    /\ UNCHANGED files

\* the token endpoint refused, answered something unparsable or was not reached:
\* the authorization returns None and the task ends
AuthorizeFailed(p) ==
    /\ auth' = [auth EXCEPT ![p] = IdleAuth]
    /\ hist' = AuthEnded(hist, p, "failed")
    /\ UNCHANGED files

\* save_tokens after a successful response: a failed write panics and the task
\* ends; otherwise the task goes on to await the lock at `next`
AuthorizeSave(p, json, w, next, new_tokens) ==
    /\ Write(p, json, w)
    /\ IF w = "written"
       THEN /\ auth' = [auth EXCEPT ![p] = [pc |-> next, new_tokens |-> new_tokens]]
            /\ hist' = Forget(hist)
       ELSE /\ auth' = [auth EXCEPT ![p] = IdleAuth]
            /\ hist' = AuthEnded(hist, p, "aborted")

\* authorize_twitter: the token response
AuthorizeTwitterResponse(p, r, w) ==
    /\ p = "Twitter"
    /\ auth[p].pc = "request"
    /\ IF r.status = "ok"
       THEN AuthorizeSave(p, TwitterSaveTokens(r.body.access_token, r.body.refresh_token),
                          w, "set_state", None)
       ELSE AuthorizeFailed(p)
    /\ UNCHANGED <<state, lock, platform_checkboxes, env, startup, task>>

\* authorize_bluesky: the createSession response
AuthorizeBlueskyResponse(p, r, w) ==
    /\ p = "Bluesky"
    /\ auth[p].pc = "request"
    /\ IF r.status = "ok"
       THEN AuthorizeSave(p, BlueskySaveTokens(r.body.access_jwt, r.body.refresh_jwt,
                                               r.body.did),
                          w, "set_state", Some(r.body))
       ELSE AuthorizeFailed(p)
    /\ UNCHANGED <<state, lock, platform_checkboxes, env, startup, task>>

\* authorize_mastodon: the token response; the closure itself calls
\* mastodon::save_tokens and then awaits the lock
AuthorizeMastodonResponse(p, r, w) ==
    /\ p = "Mastodon"
    /\ auth[p].pc = "request"
    /\ IF r.status = "ok"
       THEN AuthorizeSave(p, MastodonSaveTokens(r.body.access_token), w, "set_flag", None)
       ELSE AuthorizeFailed(p)
    /\ UNCHANGED <<state, lock, platform_checkboxes, env, startup, task>>

\* AuthorizeSetState with an authorize_bluesky that sets only the flag
AuthorizeSetStateFlagOnly(p) ==
    /\ auth[p].pc = "set_state"
    /\ lock = "free"
    /\ state' = SetAuthorized(state, p)
    /\ auth' = [auth EXCEPT ![p] = [pc |-> "set_flag", new_tokens |-> None]]
    /\ hist' = Forget(hist)
    /\ UNCHANGED <<lock, platform_checkboxes, files, env, startup, task>>

\* the lock taken inside authorize_twitter / authorize_bluesky; the guard is
\* dropped when the function returns
AuthorizeSetState(p) ==
    /\ auth[p].pc = "set_state"
    /\ lock = "free"
    /\ state' =
        IF p = "Bluesky"
        THEN [state EXCEPT !.bluesky_token = Some(Unwrap(auth[p].new_tokens).access_jwt),
                           !.did = Some(Unwrap(auth[p].new_tokens).did),
                           !.bluesky_authorized = TRUE]
        ELSE SetAuthorized(state, p)
    /\ auth' = [auth EXCEPT ![p] = [pc |-> "set_flag", new_tokens |-> None]]
    /\ hist' = Forget(hist)
    /\ UNCHANGED <<lock, platform_checkboxes, files, env, startup, task>>

\* the lock taken by the closure after the authorization returned Some(..); the
\* task ends
AuthorizeSetFlag(p) ==
    /\ auth[p].pc = "set_flag"
    /\ lock = "free"
    /\ state' = SetAuthorized(state, p)
    /\ auth' = [auth EXCEPT ![p] = IdleAuth]
    /\ hist' = AuthEnded(hist, p, "done")
    /\ UNCHANGED <<lock, platform_checkboxes, files, env, startup, task>>

----------------------------------------------------------------------------
(* The UI thread: PostApp::update takes the lock with block_on for each widget *)

\* ui.checkbox(checked, "") is shown only for an authorized platform.  A toggle
\* while a spawned broadcast still waits for its first poll is left out: the
\* closure reads only its clone of the checkboxes, so the toggle commutes with
\* every step of the broadcast and can be taken after it.
ToggleCheckbox(p) ==
    /\ lock = "free"
    /\ \A t \in Tasks : task[t].pc # "lock"
    /\ Authorized(p)
    /\ platform_checkboxes' = [platform_checkboxes EXCEPT ![p] = ~@]
    /\ hist' = NoHist
    /\ UNCHANGED <<state, lock, files, env, startup, task, auth>>

\* ui.text_edit_multiline(&mut state.post_text)
EditText(x) ==
    /\ lock = "free"
    /\ x # state.post_text
    /\ state' = [state EXCEPT !.post_text = x]
    /\ hist' = NoHist
    /\ UNCHANGED <<lock, platform_checkboxes, files, env, startup, task, auth>>

----------------------------------------------------------------------------
(* Specifications *)

\* every step of the broadcast task t after it was spawned
BroadcastStep(t) ==
    \/ BroadcastLock(t)
    \/ \E r \in PostResponses : TwitterPostResponse(t, r)
    \/ \E r \in TwitterAuthResponses, w \in WriteResults : TwitterRefreshResponse(t, r, w)
    \/ TwitterStdin(t)
    \/ \E r \in TwitterAuthResponses, w \in WriteResults : TwitterReauthResponse(t, r, w)
    \/ \E r \in PostResponses : BlueskyPostResponse(t, r)
    \/ \E r \in BlueskyAuthResponses, w \in WriteResults : BlueskyRefreshResponse(t, r, w)
    \/ \E r \in BlueskyAuthResponses, w \in WriteResults : BlueskyReauthResponse(t, r, w)
    \/ \E r \in PostResponses : MastodonPostResponse(t, r)

\* every step of the validation task
StartupStep ==
    \/ \E r \in StartupAuthResponses, w \in WriteResults : StartupRefreshResponse(r, w)
    \/ \E r \in StartupAuthResponses, w \in WriteResults : StartupReauthResponse(r, w)
    \/ StartupSetState

\* every step of the authorization task of platform p after it was spawned
AuthorizeStep(p) ==
    \/ AuthorizeStdin(p)
    \/ \E r \in TwitterAuthResponses, w \in WriteResults : AuthorizeTwitterResponse(p, r, w)
    \/ \E r \in BlueskyAuthResponses, w \in WriteResults : AuthorizeBlueskyResponse(p, r, w)
    \/ \E r \in MastodonAuthResponses, w \in WriteResults :
            AuthorizeMastodonResponse(p, r, w)
    \/ AuthorizeSetState(p)
    \/ AuthorizeSetFlag(p)

\* what the user does in the window once the platforms are authorized
UIStep ==
    \/ \E t \in Tasks : ClickPost(t)
    \/ \E p \in Platforms : ToggleCheckbox(p)
    \/ \E x \in Texts : EditText(x)

\* composing and broadcasting, with the platforms the files authorize
Next ==
    \/ \E t \in Tasks : BroadcastStep(t)
    \/ StartupStep
    \/ UIStep

Spec == Init /\ [][Next]_vars

\* authorizing and broadcasting after a first run: the user authorizes platforms
\* and posts, with every platform selected and the message left as it is
AuthNext ==
    \/ \E t \in Tasks : BroadcastStep(t)
    \/ \E p \in Platforms : AuthorizeStep(p)
    \/ \E p \in Platforms : ClickAuthorize(p)
    \/ \E t \in Tasks : ClickPost(t)

AuthSpec == AuthInit /\ [][AuthNext]_vars

\* two broadcasts: Post is clicked again while a broadcast runs, with every
\* authorized platform selected and the message left as it is
TwoNext ==
    \/ \E t \in Broadcasts : BroadcastStep(t)
    \/ StartupStep
    \/ \E t \in Broadcasts : ClickPost(t)

TwoSpec == Init /\ [][TwoNext]_vars

\* the start of the process over every content the three files can have: the
\* state before PostApp::new, and PostApp::new as the one step
NewInit ==
    /\ env \in EnvConfigs
    /\ files \in [Platforms -> AnyBlueskyFiles \cup AnyTwitterFiles \cup AnyMastodonFiles]
    /\ files["Bluesky"] \in AnyBlueskyFiles
    /\ files["Twitter"] \in AnyTwitterFiles
    /\ files["Mastodon"] \in AnyMastodonFiles
    /\ platform_checkboxes = [Twitter |-> TRUE, Bluesky |-> TRUE, Mastodon |-> TRUE]
    /\ state = AppStateDefault
    /\ startup = [pc |-> "new", new_tokens |-> None]
    /\ lock = "free"
    /\ task = [t \in Broadcasts |-> IdleTask]
    /\ auth = [p \in Platforms |-> IdleAuth]
    /\ hist = NoHist

NewSpec == NewInit /\ [][New]_vars

\* The runtime polls every spawned task, every network request is answered and
\* the code asked for on stdin is entered: a task that can take a step takes one.
LiveSpec ==
    /\ Spec
    /\ \A t \in Tasks : WF_vars(BroadcastStep(t))
    /\ WF_vars(StartupStep)

\* LiveSpec with the lock of tokio::sync::Mutex, which is handed to its waiters
\* in the order they asked: a task whose lock().await can be granted again and
\* again is granted it (strong fairness of the steps that take the lock).
LockSpec ==
    /\ LiveSpec
    /\ \A t \in Tasks : SF_vars(BroadcastLock(t))
    /\ SF_vars(StartupSetState)

----------------------------------------------------------------------------
(* Properties *)

\* the broadcast task t is inside post_to_twitter / post_to_bluesky / post_to_mastodon
InPostCall(t) ==
    task[t].pc \in {"tw_post", "tw_refresh", "tw_stdin", "tw_auth",
                    "bs_post", "bs_refresh", "bs_reauth", "ms_post"}

\* the broadcast task t holds the lock and has not ended
Running(t) == InPostCall(t)

\* the latest broadcast has returned / has ended (returned or panicked)
Returned == hist.task # "none" /\ task[hist.task].pc = "done"
Over == hist.task # "none" /\ task[hist.task].pc \in {"done", "aborted"}

\* the access token of the record in p's credential file (None without a record)
StoredAccess(p) ==
    IF p = "Bluesky"
    THEN IF IsSome(BlueskyLoadTokens(files[p]))
         THEN Some(Unwrap(BlueskyLoadTokens(files[p])).access_jwt) ELSE None
    ELSE IF p = "Twitter" THEN TwitterLoadBearerToken(files[p])
    ELSE IF IsSome(MastodonLoadTokens(files[p]))
         THEN Some(Unwrap(MastodonLoadTokens(files[p])).access_token) ELSE None

\* C1: a post call issues at most two create-post requests, on every platform and
\* for every sequence of server responses.
C1_AtMostTwoCreatePosts == hist.n_create <= 2

\* C2: every post call eventually ends, whatever the servers answer, provided
\* every request is answered: a call to p that is in progress does not stay so.
C2_PostCallReturns ==
    \A p \in Platforms :
        (hist.outcome[p] = "pending") ~> (hist.outcome[p] # "pending")

\* C3: when the first create-post of a call is answered 401 and the refresh that
\* follows succeeds, the call makes exactly one further create-post request, that
\* request carries the access token of the refreshed record, and the credential
\* file holds that record.
C3_OneRetryWithRefreshedToken ==
    \A t \in Tasks :
        (InPostCall(t) /\ hist.first[hist.call] = "refresh_ok") =>
            /\ hist.n_create = 2
            /\ task[t].pc \in {"tw_post", "bs_post"} =>
                    task[t].current_token = StoredAccess(hist.call)

\* C4: a post call that returns after a 401 which refresh did not recover (refresh
\* failed, or the platform has none) has attempted a reauthorization, and it
\* returns with the step that takes the failed reauthorization's response.
C4_ReauthorizationAttempted ==
    [][\A p \in Platforms :
        (/\ hist.outcome[p] = "pending"
         /\ hist'.outcome[p] \in {"unauthorized", "no_record", "reauth_failed",
                                   "unrecovered"})
            => hist.n_reauth >= 1]_vars

\* C5: once a broadcast in which the Bluesky post call refreshed or reauthorized
\* has returned, the Session State token equals the access token of the record in
\* the credential file.
C5_SessionHoldsRenewedToken ==
    (Returned /\ hist.first["Bluesky"] # "none")
        => state.bluesky_token = StoredAccess("Bluesky")

\* C6: a post call makes at most one refresh request and at most one
\* reauthorization request.
C6_OneRefreshOneReauth == hist.n_refresh <= 1 /\ hist.n_reauth <= 1

\* C7: after a broadcast has returned, a platform whose post call ended because
\* refresh and reauthorization both failed is no longer authorized.
C7_UnauthorizedAfterFailedRecovery ==
    \A p \in Platforms :
        (Returned /\ hist.outcome[p] = "unrecovered") => ~Authorized(p)

\* C8: the post path of a platform with interactive reauthorization never waits
\* for user input.
C8_NoUserInputInPostPath == \A t \in Tasks : task[t].pc # "tw_stdin"

\* C9: when a broadcast is over, every platform that was selected and authorized
\* has had its post attempted, whatever happened on the other platforms.
C9_EveryWantedPlatformAttempted ==
    Over => \A p \in hist.wanted : hist.outcome[p] \notin {"none", "skipped"}

\* C10: a broadcast leaves post_text alone until its last attempt has completed,
\* and the step with which it returns leaves post_text empty, whatever the
\* outcomes of its attempts.
C10_BufferClearedAfterAttempts ==
    [][\A t \in Tasks :
        IF task[t].pc # "done" /\ task'[t].pc = "done"
        THEN /\ state'.post_text = ""
             /\ \A p \in Platforms : hist'.outcome[p] # "pending"
             /\ \A p \in hist'.wanted : hist'.outcome[p] # "none"
        ELSE (Running(t) \/ Running(t)') => state'.post_text = state.post_text]_vars

\* C10 witness: a broadcast of a non-empty message has returned with one platform
\* posted and another failed, and the buffer is empty.
C10_Witness ==
    /\ Returned
    /\ hist.text # ""
    /\ state.post_text = ""
    /\ \E p, q \in Platforms :
        /\ hist.outcome[p] = "success"
        /\ hist.outcome[q] \in {"rejected", "unrecovered", "unauthorized", "exhausted"}

\* C11: with TWITTER_CLIENT_ID unset, a broadcast whose Twitter call was answered
\* 401 (and so reached the refresh path) is over only when every other selected
\* and authorized platform has had its post call and the buffer has been cleared.
C11_MissingVariableAffectsOnePlatform ==
    (/\ Over
     /\ "TWITTER_CLIENT_ID" \notin env
     /\ hist.outcome["Twitter"] \notin {"none", "skipped", "success", "rejected"})
        => /\ \A p \in hist.wanted \ {"Twitter"} : hist.outcome[p] # "none"
           /\ state.post_text = ""

\* the platform whose post call the broadcast task t is in
PostingTo(t) ==
    IF task[t].pc \in {"tw_post", "tw_refresh", "tw_stdin", "tw_auth"} THEN "Twitter"
    ELSE IF task[t].pc \in {"bs_post", "bs_refresh", "bs_reauth"} THEN "Bluesky"
    ELSE "Mastodon"

\* C12: whenever a broadcast has a request of a post call in flight, the platform
\* of that call was selected when Post was clicked and is authorized in the
\* Session State; a platform that was not selected or not authorized when the
\* broadcast took the lock gets no call at all.
C12_OnlySelectedAndAuthorized ==
    /\ \A t \in Tasks :
            InPostCall(t) => /\ task[t].selected_platforms[PostingTo(t)]
                             /\ Authorized(PostingTo(t))
                             /\ hist.call = PostingTo(t)
    /\ \A p \in Platforms : hist.outcome[p] # "none" => p \in hist.wanted

\* a create-post request to Mastodon is in flight in a broadcast that passed over
\* an authorized platform because it was not selected
C12_Witness ==
    \E t \in Tasks :
        /\ task[t].pc = "ms_post"
        /\ \E p \in {"Twitter", "Bluesky"} :
                Authorized(p) /\ ~task[t].selected_platforms[p]

\* the access token the program holds for p: state.bluesky_token for Bluesky, the
\* record of the credential file for Twitter and Mastodon, which keep none in
\* the Session State
HeldAccess(p) == IF p = "Bluesky" THEN state.bluesky_token ELSE StoredAccess(p)

\* C13: in every reachable state a platform whose authorized flag is true has an
\* access token, in the Session State or, for Twitter and Mastodon, in the record
\* of its credential file.
C13_AuthorizedHasAccessToken ==
    \A p \in Platforms : Authorized(p) => IsSome(HeldAccess(p))

\* a network request of the broadcast task t is in flight
InRequest(t) ==
    task[t].pc \in {"tw_post", "tw_refresh", "tw_auth",
                    "bs_post", "bs_refresh", "bs_reauth", "ms_post"}

\* C14: the Session State lock is not held while a network request of a broadcast,
\* of an authorization task or of the validation task is in flight, so the UI
\* thread can take it at once.
C14_NoLockAcrossRequest ==
    (\/ \E t \in Tasks : InRequest(t)
     \/ \E p \in Platforms : auth[p].pc = "request"
     \/ startup.pc \in {"refresh", "reauth"})
        => lock = "free"

\* the successful responses among rs
Granted(rs) == {r \in rs : r.status = "ok"}

C16_StateUpdatedWhenSaveFails ==
    \A p \in Platforms :
        (/\ hist.last_auth = [platform |-> p, outcome |-> "aborted"]
         /\ RequiredEnv(p) \subseteq env)
            => /\ Authorized(p)
               /\ p = "Bluesky" => IsSome(state.bluesky_token)

\* C17: the step that takes a failed authorization response (refused, unparsable
\* or not delivered) changes neither the Session State nor any credential file,
\* leaves the platform's flag false and ends the task, so that no later step of
\* it sets the flag.
C17_FailedAuthorizationChangesNothing ==
    [][\A p \in Platforms, r \in AuthFailures :
        (\/ AuthorizeTwitterResponse(p, r, "written")
         \/ AuthorizeBlueskyResponse(p, r, "written")
         \/ AuthorizeMastodonResponse(p, r, "written"))
            => /\ state' = state
               /\ files' = files
               /\ ~Authorized(p)
               /\ auth'[p] = IdleAuth
               /\ hist'.last_auth = [platform |-> p, outcome |-> "failed"]
      ]_vars

\* an authorization has just failed while another platform is authorized and has
\* its record in the store
C17_Witness ==
    \E p \in Platforms :
        /\ hist.last_auth = [platform |-> p, outcome |-> "failed"]
        /\ ~Authorized(p)
        /\ \E q \in Platforms \ {p} : Authorized(q) /\ files[q].kind = "json"

\* C18: the step that takes a successful authorization response and saves it
\* leaves in the platform's file a record whose fields are those of the response,
\* and the task goes on to the steps that set the platform's flag; the step inside
\* authorize_bluesky sets the Session State token and did to the values of that
\* response, and the last step of every authorization leaves the flag true.
C18_SuccessfulAuthorizationStored ==
    [][/\ \A r \in Granted(TwitterAuthResponses) :
            AuthorizeTwitterResponse("Twitter", r, "written")
                => /\ TwitterLoadTokens(files'["Twitter"]) = Some(r.body)
                   /\ auth'["Twitter"].pc = "set_state"
       /\ \A r \in Granted(BlueskyAuthResponses) :
            AuthorizeBlueskyResponse("Bluesky", r, "written")
                => /\ BlueskyLoadTokens(files'["Bluesky"]) = Some(r.body)
                   /\ auth'["Bluesky"] = [pc |-> "set_state", new_tokens |-> Some(r.body)]
       /\ \A r \in Granted(MastodonAuthResponses) :
            AuthorizeMastodonResponse("Mastodon", r, "written")
                => /\ MastodonLoadTokens(files'["Mastodon"]) = Some(r.body)
                   /\ auth'["Mastodon"].pc = "set_flag"
       /\ \A p \in Platforms :
            AuthorizeSetState(p)
                => /\ Authorized(p)'
                   /\ auth'[p].pc = "set_flag"
                   /\ p = "Bluesky" =>
                        /\ state'.bluesky_token = Some(Unwrap(auth[p].new_tokens).access_jwt)
                        /\ state'.did = Some(Unwrap(auth[p].new_tokens).did)
       /\ \A p \in Platforms :
            AuthorizeSetFlag(p)
                => /\ Authorized(p)'
                   /\ hist'.last_auth = [platform |-> p, outcome |-> "done"]
      ]_vars

\* the authorization of Bluesky has just ended with success: the flag is set and
\* the Session State holds the token and the did of the saved record
C18_Witness ==
    /\ hist.last_auth = [platform |-> "Bluesky", outcome |-> "done"]
    /\ state.bluesky_authorized
    /\ IsSome(BlueskyLoadTokens(files["Bluesky"]))
    /\ state.bluesky_token = Some(Unwrap(BlueskyLoadTokens(files["Bluesky"])).access_jwt)
    /\ state.did = Some(Unwrap(BlueskyLoadTokens(files["Bluesky"])).did)

\* the step ends the post call of t to p as rejected: no request of that call is
\* in flight after it, and it changes no credential file and nothing of the
\* Session State but the message buffer
EndsRejected(t, p) ==
    /\ hist'.outcome[p] = "rejected"
    /\ ~(InPostCall(t)' /\ PostingTo(t)' = p)
    /\ hist'.n_refresh = 0 /\ hist'.n_reauth = 0
    /\ files' = files
    /\ [state' EXCEPT !.post_text = state.post_text] = state

\* C19: the step that takes a create-post response which is neither a success nor
\* a 401 (another status, or a transport error), for the first request of a call
\* or for a retried one, ends the call with failure at once: no refresh, no
\* reauthorization and no further create-post is issued for it, and the
\* credential files and the Session State tokens stay as they were.
C19_OtherFailureEndsCall ==
    [][\A t \in Tasks, r \in {"rejected", "transport"} :
        /\ TwitterPostResponse(t, r) => EndsRejected(t, "Twitter")
        /\ BlueskyPostResponse(t, r) => EndsRejected(t, "Bluesky")
        /\ MastodonPostResponse(t, r) => EndsRejected(t, "Mastodon")
      ]_vars

\* a retried create-post of Bluesky was rejected after a successful refresh, and
\* the broadcast has gone on to Mastodon
C19_Witness ==
    /\ hist.outcome["Bluesky"] = "rejected"
    /\ hist.first["Bluesky"] = "refresh_ok"
    /\ \E t \in Tasks : task[t].pc = "ms_post"

\* C20: the steps of a broadcast whose create-post requests succeed (taking the
\* lock and issuing the first request, and taking each successful response)
\* change no credential state: the authorized flags, bluesky_token, did and every
\* credential file stay as they were; of the Session State only the message
\* buffer changes, and only by being cleared.
C20_SuccessChangesNoCredentials ==
    [][\A t \in Tasks :
        (\/ BroadcastLock(t)
         \/ TwitterPostResponse(t, "success")
         \/ BlueskyPostResponse(t, "success")
         \/ MastodonPostResponse(t, "success"))
            => /\ files' = files
               /\ [state' EXCEPT !.post_text = state.post_text] = state
               /\ state'.post_text \in {state.post_text, ""}
      ]_vars

\* a broadcast to the three platforms has returned, each first create-post having
\* succeeded, with the credentials of all three still in place
C20_Witness ==
    /\ Returned
    /\ \A p \in Platforms :
            /\ hist.outcome[p] = "success" /\ hist.first[p] = "none"
            /\ Authorized(p) /\ IsSome(HeldAccess(p))
    /\ state.post_text = "" /\ hist.text # ""

\* the outcomes of a post call the closure reports with a println: the call
\* returned true or false
ReportedOutcomes ==
    {"success", "rejected", "unauthorized", "no_record", "reauth_failed", "unrecovered",
     "exhausted"}

\* C21: when a broadcast is over, every platform that was selected and authorized
\* when it started has one reported outcome, success or failure; none was passed
\* over without a report, whether or not its token could be loaded.
C21_OneOutcomePerWantedPlatform ==
    Over => \A p \in hist.wanted : hist.outcome[p] \in ReportedOutcomes

\* C22: broadcasts do not exclude one another: while one broadcast has a request
\* to a platform in flight, another broadcast that was dispatched and waits to
\* start can start (and so reach a request to the same platform at the same time).
C22_BroadcastsNotExcluded ==
    \A t1, t2 \in Broadcasts :
        (t1 # t2 /\ InRequest(t1) /\ task[t2].pc = "lock")
            => ENABLED BroadcastLock(t2)

\* C23: when the validation task finishes a renewal by writing its token to the
\* Session State, with no broadcast inside a post call and a loadable record in
\* the store, the Session State then holds the access token of that record:
\* whatever renewal of a broadcast overlapped with it, one result is canonical.
C23_CanonicalRenewal ==
    [][(/\ StartupSetState
        /\ startup.pc = "set_tokens"
        /\ \A t \in Broadcasts : ~InPostCall(t)
        /\ IsSome(StoredAccess("Bluesky")))
            => state'.bluesky_token = StoredAccess("Bluesky")
      ]_vars

\* C24: the step of post_to_bluesky that takes a 401 while the credential file
\* holds no loadable record issues the reauthorization request.
C24_ReauthorizesWithoutRecord ==
    [][\A t \in Tasks :
        (/\ BlueskyPostResponse(t, "unauthorized")
         /\ ~IsSome(BlueskyLoadTokens(files["Bluesky"])))
            => task'[t].pc = "bs_reauth"
      ]_vars

\* load_tokens of p returns a record
Loaded(p) ==
    IF p = "Bluesky" THEN IsSome(BlueskyLoadTokens(files[p]))
    ELSE IF p = "Twitter" THEN IsSome(TwitterLoadTokens(files[p]))
    ELSE IsSome(MastodonLoadTokens(files[p]))

\* C25: whatever the three files hold when the process starts, PostApp::new
\* completes (no load aborts it), load returns a record exactly for a file that
\* exists and parses, and a platform is marked authorized exactly when its load
\* returned a record.
C25_LoadReturnsRecordOrAbsent ==
    startup.pc # "new" =>
        /\ startup.pc # "panicked"
        /\ \A p \in Platforms :
                /\ Loaded(p) <=> files[p].kind = "json"
                /\ Authorized(p) <=> Loaded(p)

\* C26: while the validation task of a loaded Bluesky record has a request in
\* flight the flag is true; a refresh or a fallback reauthorization that the
\* server grants takes the task on to the step that writes the granted token and
\* did to the Session State, with the flag still true; when both are refused the
\* task goes on to the step that sets the flag to false.
C26_StartupValidation ==
    [][/\ startup.pc \in {"refresh", "reauth", "set_tokens"} => state.bluesky_authorized
       /\ \A r \in Granted(StartupAuthResponses), w \in WriteResults :
            (StartupRefreshResponse(r, w) \/ StartupReauthResponse(r, w))
                => startup' = [pc |-> "set_tokens", new_tokens |-> Some(r.body)]
       /\ \A r \in AuthFailures, w \in WriteResults :
            /\ StartupRefreshResponse(r, w) => startup'.pc = "reauth"
            /\ StartupReauthResponse(r, w) => startup'.pc = "set_unauthorized"
       /\ StartupSetState =>
            IF startup.pc = "set_tokens"
            THEN /\ state'.bluesky_token = Some(Unwrap(startup.new_tokens).access_jwt)
                 /\ state'.did = Some(Unwrap(startup.new_tokens).did)
                 /\ state'.bluesky_authorized
            ELSE ~state'.bluesky_authorized
      ]_vars

\* C27: in every reachable state, bluesky_authorized implies that bluesky_token
\* and did are present in the Session State, and no broadcast has passed over a
\* selected and authorized Bluesky for lack of them.
C27_BlueskyAuthorizedHasTokenAndDid ==
    /\ state.bluesky_authorized => IsSome(state.bluesky_token) /\ IsSome(state.did)
    /\ hist.outcome["Bluesky"] # "skipped"

\* the validation task has replaced the loaded token and a broadcast, started
\* with Bluesky selected and authorized, has its create-post request in flight
\* with the token and the did of the Session State
C27_Witness ==
    /\ state.bluesky_authorized
    /\ startup.pc = "done"
    /\ state.bluesky_token \in {Some(b.access_jwt) : b \in StartupGrants}
    /\ \E t \in Tasks :
            /\ task[t].pc = "bs_post" /\ hist.n_create = 1
            /\ task[t].current_token = state.bluesky_token
            /\ task[t].user_did = state.did

\* a task waits in state.lock().await: the broadcast before its first section,
\* the validation task before it writes its result
LockRequested(t) == task[t].pc = "lock"
StartupLockRequested == startup.pc \in {"set_tokens", "set_unauthorized"}

\* C28: no task deadlocks on the Session State lock: no task asks for the lock
\* while it holds it, and every lock request (of a broadcast, of the validation
\* task, of the UI thread that locks in every frame) is eventually granted when
\* every network request and every input is answered.
C28_LockEventuallyGranted ==
    /\ [](\A t \in Tasks : LockRequested(t) => lock # t)
    /\ \A t \in Tasks : LockRequested(t) ~> ~LockRequested(t)
    /\ StartupLockRequested ~> (startup.pc = "done")
    /\ (lock # "free") ~> (lock = "free")

=============================================================================
